---------------------------- MODULE Spec2Model ----------------------------
(***************************************************************************)
(* Model of scripts/migrate_public_ids_to_uuidv7.py: the UUIDv7 generator  *)
(* timestamp_to_uuidv7 and the backfill driver migrate_public_ids.         *)
(*                                                                         *)
(* Numbers.  A millisecond count needs 48 bits, so it is kept as two       *)
(* 24-bit limbs [hi, lo] with value hi * 2^24 + lo.  A datetime is         *)
(* [hi, lo, us]: its whole milliseconds since the epoch plus the           *)
(* microseconds (0..999) below the millisecond.  A UUID is its 16 bytes;   *)
(* a string is the sequence of its character codes.                        *)
(***************************************************************************)
EXTENDS Integers, Sequences, FiniteSets, TLC

(***************************************************************************)
(* Bounds of the model.                                                    *)
(***************************************************************************)
MaxCounter == 1002
MaxRecords == 3
\* rows of the store in the runs checked for liveness and for the migrations
MaxFairRecords == 2
\* migrations applied one after the other
MaxMigrations == 5

(***************************************************************************)
(* Arithmetic on limbs and bytes.                                          *)
(***************************************************************************)
Limb == 16777216

\* what to_bytes raises when the value does not fit; never 16 elements long
OverflowError == << "OverflowError" >>
IsUUID(u) == Len(u) = 16

\* hi * 2^24 + lo + k for a small non-negative k
AddMs(ms, k) ==
    [hi |-> ms.hi + ((ms.lo + k) \div Limb), lo |-> (ms.lo + k) % Limb]

MsLess(a, b) == a.hi < b.hi \/ (a.hi = b.hi /\ a.lo < b.lo)

MsLeq(a, b) == a = b \/ MsLess(a, b)

\* int.to_bytes(3, 'big') of one limb
LimbBytes(x) == << (x \div 65536) % 256, (x \div 256) % 256, x % 256 >>

\* x & 0x0F and x & 0x3F on one byte
Low4(b) == b % 16
Low6(b) == b % 64

\* lexicographic (byte-wise, most significant first) comparison
RECURSIVE SeqLess(_, _)
SeqLess(a, b) ==
    IF a = << >> THEN b # << >>
    ELSE IF b = << >> THEN FALSE
    ELSE IF Head(a) # Head(b) THEN Head(a) < Head(b)
    ELSE SeqLess(Tail(a), Tail(b))

SeqLeq(a, b) == a = b \/ SeqLess(a, b)

(***************************************************************************)
(* timestamp_to_uuidv7                                                     *)
(***************************************************************************)
\* round(dt.timestamp() * 1000) in place of int(...)
RoundMsMut(dt) ==
    AddMs([hi |-> dt.hi, lo |-> dt.lo], IF dt.us >= 500 THEN 1 ELSE 0)
\* int(dt.timestamp() * 1000): whole milliseconds, the microseconds dropped.
\* The double arithmetic is exact to the millisecond for the datetimes used
\* here (it can lose one millisecond for datetimes within hours of the
\* epoch); for datetime.max its rounding is part of TMax.
timestamp_ms_of(dt) == [hi |-> dt.hi, lo |-> dt.lo]

\* counter & 0x3FF in place of counter % 1000
CounterModMut == 2 * 512
CounterMod == 1000

NoCounterMut(timestamp_ms, counter) == timestamp_ms
NoModuloMut(timestamp_ms, counter) == AddMs(timestamp_ms, counter)
\* timestamp_ms += counter % 1000
adjusted_ms(timestamp_ms, counter) == AddMs(timestamp_ms, counter % CounterMod)

LittleEndianMut(ms) == LimbBytes(ms.lo) \o LimbBytes(ms.hi)
\* timestamp_ms.to_bytes(6, byteorder='big'), for a value that fits
to_bytes6(ms) == LimbBytes(ms.hi) \o LimbBytes(ms.lo)

\* rand_a | 0x7000 without the mask: the top nibble n becomes n | 7
PlainOrMut(rand_bytes) ==
    << (((rand_bytes[1] \div 128) * 8) + 7) * 16 + Low4(rand_bytes[1]), rand_bytes[2] >>
\* rand_a = (from_bytes(rand_bytes[0:2]) & 0x0FFF) | 0x7000, as 2 bytes
rand_a_bytes(rand_bytes) == << 112 + Low4(rand_bytes[1]), rand_bytes[2] >>

\* the mask 0x7FFF... in place of 0x3FFF...: one random bit in the variant
WideMaskMut(rand_bytes) ==
    << 128 + (rand_bytes[3] % 128) >> \o SubSeq(rand_bytes, 4, 10)
\* rand_b = (from_bytes(rand_bytes[2:10]) & 0x3FFF...) | 0x8000..., as 8 bytes
rand_b_bytes(rand_bytes) ==
    << 128 + Low6(rand_bytes[3]) >> \o SubSeq(rand_bytes, 4, 10)

\* to_bytes(5, ...) in place of to_bytes(6, ...)
Fits40Mut(ms) == ms.hi < 65536
\* whether to_bytes(6, ...) accepts the value: 0 <= value < 2^48
fits48(ms) == ms.hi >= 0 /\ ms.hi < Limb

timestamp_to_uuidv7(dt, counter, rand_bytes) ==
    LET ms == adjusted_ms(timestamp_ms_of(dt), counter) IN
    IF ~fits48(ms) THEN OverflowError
    ELSE to_bytes6(ms) \o rand_a_bytes(rand_bytes) \o rand_b_bytes(rand_bytes)

(***************************************************************************)
(* Reading the fields of an identifier back.                               *)
(***************************************************************************)
\* first 48 bits as a big-endian integer, in limbs
TimestampField(u) ==
    [hi |-> u[1] * 65536 + u[2] * 256 + u[3],
     lo |-> u[4] * 65536 + u[5] * 256 + u[6]]

\* bits 48..51
VersionField(u) == u[7] \div 16

\* bits 64..65
VariantField(u) == u[9] \div 64


(***************************************************************************)
(* Inputs of the model.                                                    *)
(***************************************************************************)
DT(hi, lo, us) == [hi |-> hi, lo |-> lo, us |-> us]

\* 2024-01-01T00:00:00.000Z is 1704067200000 ms = 101570 * 2^24 + 5370880
T0 == DT(101570, 5370880, 0)
T0_300us == DT(101570, 5370880, 300)
T0_700us == DT(101570, 5370880, 700)
T1ms == DT(101570, 5370881, 0)
T500ms == DT(101570, 5371380, 0)
T1000ms == DT(101570, 5371880, 0)
\* 500 ms below a multiple of 2^24: adding the counter can carry
TCarry == DT(101570, Limb - 500, 0)
\* datetime.max, 9999-12-31T23:59:59.999999, the latest datetime there is:
\* the double arithmetic rounds it up to the next second and
\* int(dt.timestamp() * 1000) is 253402300800000, the largest value the
\* conversion gives
TMax == DT(15103954, 2087936, 0)

GenTimes == {T0, T0_300us, T0_700us, T1ms, T500ms, T1000ms, TCarry, TMax}

CounterSamples == {0, 1, 999, 1000}

\* secrets.token_bytes(10): three of the 2^80 outcomes
Rand00 == << 0, 0, 0, 0, 0, 0, 0, 0, 0, 0 >>
RandFF == << 255, 255, 255, 255, 255, 255, 255, 255, 255, 255 >>
RandMix == << 165, 90, 195, 60, 15, 240, 18, 52, 86, 120 >>
RandSamples == {Rand00, RandFF, RandMix}

VARIABLES
    call,            \* the latest call of timestamp_to_uuidv7: inputs and result
    prev_call,       \* the call before it
    env_url,         \* whether DATABASE_URL is set and non-empty
    batch_size,      \* --batch-size
    dry_run,         \* --dry-run
    table,           \* group_messages as committed: id -> [created_at, public_id]
    table0,          \* group_messages as it was before the run
    txn,             \* group_messages as the driver's open transaction sees it
    conn,            \* "none", "open" or "closed"
    pc,              \* the driver's position
    total_count,
    messages,        \* the rows fetched, << id, created_at >> each
    updates,         \* << str(new_public_id), msg_id >> each
    last_timestamp,
    counter,
    assigned,        \* one entry per call at line 137, in order
    i,               \* the loop variable of the update loop
    issued,          \* per execute_batch call, the statements it ran
    null_count,
    out_of_order,
    exc,             \* the exception raised, and the step that raised it
    log,             \* database actions and reports, in order
    mig,             \* schema of group_messages.public_id and the last
                     \* outcome of the finalize migration
    profile          \* a CofounderProfile: its weighted fields, its
                     \* completion_score and is_complete

genvars == << call, prev_call >>

drivervars == << env_url, batch_size, dry_run, table, table0, txn, conn, pc,
                 total_count, messages, updates, last_timestamp, counter,
                 assigned, i, issued, null_count, out_of_order, exc, log,
                 mig >>

vars == << genvars, drivervars, profile >>

NoCall == [counter |-> -1]

MakeCall(dt, c, rand_bytes) ==
    [dt |-> dt, counter |-> c, rand_bytes |-> rand_bytes,
     id |-> timestamp_to_uuidv7(dt, c, rand_bytes)]

(***************************************************************************)
(* CofounderProfile.compute_completion_score and update_completion.  A     *)
(* field value is its Python type and its length.                          *)
(***************************************************************************)
None == [type |-> "NoneType", len |-> 0]
Str(n) == [type |-> "str", len |-> n]
List(n) == [type |-> "list", len |-> n]
\* a member of one of the (str, Enum) classes: never equal to ""
EnumMember == [type |-> "Enum", len |-> 1]

\* the values of a Text column, of an ARRAY(Text) column, of an Enum column
TextValues == {None, Str(0), Str(1)}
ArrayValues == {None, List(0), List(1)}
EnumValues == {None, EnumMember}

fields_weights ==
    [elevator_pitch |-> 15, technical_level |-> 10, primary_roles |-> 10,
     industries |-> 10, commitment_timeline |-> 10, idea_status |-> 10,
     looking_for_description |-> 15, professional_experience |-> 5,
     impressive_accomplishment |-> 5, education |-> 5,
     responsibility_areas |-> 5]

\* the order in which the loop visits fields_weights
FieldOrder ==
    << "elevator_pitch", "technical_level", "primary_roles", "industries",
       "commitment_timeline", "idea_status", "looking_for_description",
       "professional_experience", "impressive_accomplishment", "education",
       "responsibility_areas" >>

\* only None counts as missing
NotNoneMut(value) == value # None
\* value is not None and value != "" and value != []
is_filled(value) == value # None /\ value # Str(0) /\ value # List(0)

\* the loop over fields_weights.items(), from position k on
RECURSIVE score_from(_, _)
score_from(fields, k) ==
    IF k > Len(FieldOrder) THEN 0
    ELSE (IF is_filled(fields[FieldOrder[k]])
          THEN fields_weights[FieldOrder[k]] ELSE 0)
         + score_from(fields, k + 1)

\* return min(score, 100)
compute_completion_score(fields) ==
    IF score_from(fields, 1) < 100 THEN score_from(fields, 1) ELSE 100

\* self.completion_score >= 60
CompleteAt == 60

\* self.completion_score = ...; self.is_complete = ...
update_completion(p) ==
    LET score == compute_completion_score(p.fields)
    IN  [p EXCEPT !.completion_score = score,
                  !.is_complete = score >= CompleteAt,
                  !.op = "update_completion"]

\* no profile is involved
NoProfile == [op |-> "none"]

\* the attribute values a profile can hold
ProfileFields ==
    [elevator_pitch : TextValues, technical_level : EnumValues,
     primary_roles : ArrayValues, industries : ArrayValues,
     commitment_timeline : EnumValues, idea_status : EnumValues,
     looking_for_description : TextValues,
     professional_experience : TextValues,
     impressive_accomplishment : TextValues, education : TextValues,
     responsibility_areas : ArrayValues]

(***************************************************************************)
(* The store and the text form of an identifier.                           *)
(***************************************************************************)
\* SQL NULL in the public_id column; never 36 elements long
NULL == << "NULL" >>

\* a datetime that is no row's created_at stands for last_timestamp = None
NoDatetime == DT(-1, -1, -1)

DtLess(a, b) == MsLess(a, b) \/ (a.hi = b.hi /\ a.lo = b.lo /\ a.us < b.us)

\* character codes: '0'..'9' are 48..57, 'a'..'f' are 97..102, '-' is 45
HexChar(n) == IF n < 10 THEN 48 + n ELSE 87 + n

RECURSIVE HexBytes(_)
HexBytes(bs) ==
    IF bs = << >> THEN << >>
    ELSE << HexChar(Head(bs) \div 16), HexChar(Head(bs) % 16) >> \o HexBytes(Tail(bs))

\* str(UUID(bytes_le=u)): the first three groups byte-swapped
BytesLeMut(u) ==
    HexBytes(<< u[4], u[3], u[2], u[1] >>) \o << 45 >> \o HexBytes(<< u[6], u[5] >>)
      \o << 45 >> \o HexBytes(<< u[8], u[7] >>) \o << 45 >>
      \o HexBytes(SubSeq(u, 9, 10)) \o << 45 >> \o HexBytes(SubSeq(u, 11, 16))
\* str(UUID(bytes=u)): lowercase hex in groups of 8-4-4-4-12
uuid_str(u) ==
    HexBytes(SubSeq(u, 1, 4)) \o << 45 >> \o HexBytes(SubSeq(u, 5, 6)) \o << 45 >>
      \o HexBytes(SubSeq(u, 7, 8)) \o << 45 >> \o HexBytes(SubSeq(u, 9, 10))
      \o << 45 >> \o HexBytes(SubSeq(u, 11, 16))

\* an identifier a row may carry before the run (a version-4 UUID)
OldId(id) ==
    uuid_str(<< 255, 255, 255, 255, 255, 255, 79, 255, 191, 255, 255, 255, 255, 255, 255, id >>)

\* ORDER BY created_at ASC, id ASC
OrderedBefore(T, a, b) ==
    \/ DtLess(T[a].created_at, T[b].created_at)
    \/ (T[a].created_at = T[b].created_at /\ a < b)

OrderedIds(T) ==
    [k \in 1..Cardinality(DOMAIN T) |->
        CHOOSE a \in DOMAIN T :
            Cardinality({b \in DOMAIN T : OrderedBefore(T, b, a)}) = k - 1]

\* the same SELECT with WHERE public_id IS NULL
SelectNullOnlyMut(T) ==
    LET N == [a \in {x \in DOMAIN T : T[x].public_id = NULL} |-> T[a]]
    IN  [k \in 1..Cardinality(DOMAIN N) |->
            << OrderedIds(N)[k], N[OrderedIds(N)[k]].created_at >>]
\* SELECT id, created_at FROM group_messages ORDER BY created_at ASC, id ASC
select_messages(T) ==
    [k \in 1..Cardinality(DOMAIN T) |->
        << OrderedIds(T)[k], T[OrderedIds(T)[k]].created_at >>]

\* UPDATE group_messages SET public_id = %s WHERE id = %s, for each pair
RECURSIVE execute_batch(_, _)
execute_batch(T, batch) ==
    IF batch = << >> THEN T
    ELSE LET public_id == Head(batch)[1]
             msg_id == Head(batch)[2]
             T1 == IF msg_id \in DOMAIN T
                   THEN [T EXCEPT ![msg_id].public_id = public_id]
                   ELSE T
         IN  execute_batch(T1, Tail(batch))

\* the count taken over the fetched ids only
CountFetchedNullMut(T) ==
    Cardinality({a \in DOMAIN T : a <= Len(messages) /\ T[a].public_id = NULL})
\* SELECT COUNT(*) FROM group_messages WHERE public_id IS NULL
count_null(T) == Cardinality({a \in DOMAIN T : T[a].public_id = NULL})

\* rows whose public_id::text is below the public_id::text of the row before
\* them in (created_at, id) order; a NULL on either side is not counted
count_out_of_order(T) ==
    Cardinality({k \in 2..Cardinality(DOMAIN T) :
        LET cur == T[OrderedIds(T)[k]].public_id
            prev_public_id == T[OrderedIds(T)[k - 1]].public_id
        IN  /\ prev_public_id # NULL
            /\ cur # NULL
            /\ SeqLess(cur, prev_public_id)})

(***************************************************************************)
(* migrate_public_ids                                                      *)
(***************************************************************************)
DriverTimes == {T0, T0_300us, T1ms}
DriverRand == {Rand00, RandFF}
BatchSizes == {-1, 0, 1, 2}

AutocommitMut == TRUE
\* conn.autocommit = False
autocommit == FALSE

NoExc == [type |-> "None", step |-> "None"]

\* the finally clause left out
LeakConnectionMut == "open"
\* finally: conn.close()
finally_close == "closed"

\* a default URL in place of sys.exit(1)
DefaultUrlMut(url_set) == TRUE
\* get_database_url: `if not url` is false
has_url(url_set) == url_set

\* the dry_run test skipped
IgnoreDryRunMut(dry) == "update"
\* where the driver goes once every identifier is generated
after_generate(dry) == IF dry THEN "dry_run" ELSE "update"

\* the early return left out
NeverEmptyMut(total) == FALSE
\* if total_count == 0: return
no_messages(total) == total = 0

\* a residual NULL treated as fatal
FatalNullMut(n) == IF n > 0 THEN "except" ELSE "verify_order"
\* where the driver goes after the residual-NULL check found n rows
after_null_check(n) == "verify_order"

NeverResetMut(last, created_at, c) ==
    IF last # NoDatetime THEN c + 1 ELSE 0
\* the counter passed for a row, from the previous row's timestamp and counter
next_counter(last, created_at, c) ==
    IF last # NoDatetime /\ created_at = last THEN c + 1 ELSE 0

\* which rows carry an identifier before the run: none, all, the first
\* only, or the first and the last with a gap between them
FilledChoices(n) == {{}, 1..n, {1}, {1, n} \cap (1..n)}

InitialTables ==
    UNION {
        { [k \in 1..n |->
             [created_at |-> times[k],
              public_id |-> IF k \in filled THEN OldId(k) ELSE NULL]] :
          times \in [1..n -> DriverTimes],
          filled \in FilledChoices(n) }
        : n \in 0..MaxRecords }

\* the two columns the migrations add
PublicId == "group_messages.public_id"
LastSeenPublicId == "project_group_members.last_seen_public_id"

\* before f2a3b4c5d6e7 (at its down_revision): neither column exists
BaseSchema ==
    [revision |-> "e1f2a3b4c5d6", columns |-> {}, nullable |-> TRUE,
     unique_constraint |-> FALSE, indexes |-> {}, error |-> "None",
     applied |-> << >>]

\* after f2a3b4c5d6e7 upgrade: public_id exists, nullable, no constraint
Phase1Schema ==
    [revision |-> "f2a3b4c5d6e7", columns |-> {PublicId, LastSeenPublicId},
     nullable |-> TRUE, unique_constraint |-> FALSE, indexes |-> {},
     error |-> "None", applied |-> << >>]

DriverIdle ==
    /\ conn = "none"
    /\ pc = "start"
    /\ total_count = 0
    /\ messages = << >>
    /\ updates = << >>
    /\ last_timestamp = NoDatetime
    /\ counter = 0
    /\ assigned = << >>
    /\ i = 0
    /\ issued = << >>
    /\ null_count = 0
    /\ out_of_order = 0
    /\ exc = NoExc
    /\ log = << >>
    /\ mig = Phase1Schema

Init ==
    /\ call = NoCall
    /\ prev_call = NoCall
    /\ profile = NoProfile
    /\ env_url \in BOOLEAN
    /\ batch_size \in BatchSizes
    /\ dry_run \in BOOLEAN
    /\ table \in InitialTables
    /\ table0 = table
    /\ txn = table
    /\ DriverIdle

inputs == << env_url, batch_size, dry_run, table0 >>
genstate == << messages, updates, last_timestamp, counter, assigned >>
results == << total_count, null_count, out_of_order >>

\* an exception leaves the try block for the except clause
Raise(type, step) ==
    /\ exc' = [type |-> type, step |-> step]
    /\ pc' = "except"

\* get_database_url with DATABASE_URL missing or empty: sys.exit(1)
GetDatabaseUrlMissing ==
    /\ pc = "start"
    /\ ~has_url(env_url)
    /\ pc' = "exited"
    /\ exc' = [type |-> "SystemExit(1)", step |-> "get_database_url"]
    /\ log' = Append(log, "error_config")
    /\ UNCHANGED << genvars, profile, inputs, mig, table, txn, conn, genstate, i, issued, results >>

\* psycopg2.connect succeeds; the transaction starts on the committed rows
Connect ==
    /\ pc = "start"
    /\ has_url(env_url)
    /\ conn' = "open"
    /\ txn' = table
    /\ pc' = "count"
    /\ log' = Append(log, "connect")
    /\ UNCHANGED << genvars, profile, inputs, mig, table, genstate, i, issued, results, exc >>

\* psycopg2.connect raises, before the try block
ConnectFail ==
    /\ pc = "start"
    /\ has_url(env_url)
    /\ exc' = [type |-> "OperationalError", step |-> "connect"]
    /\ pc' = "raised"
    /\ UNCHANGED << genvars, profile, inputs, mig, table, txn, conn, genstate, i, issued, results, log >>

\* SELECT COUNT(*); with no rows the function returns and finally closes
CountQuery ==
    /\ pc = "count"
    /\ total_count' = Cardinality(DOMAIN txn)
    /\ IF no_messages(total_count')
       THEN /\ pc' = "returned"
            /\ conn' = finally_close
            /\ log' = log \o << "count", "close" >>
       ELSE /\ pc' = "fetch"
            /\ conn' = conn
            /\ log' = Append(log, "count")
    /\ UNCHANGED << genvars, profile, inputs, mig, table, txn, genstate, i, issued, null_count,
                    out_of_order, exc >>

CountQueryFail ==
    /\ pc = "count"
    /\ Raise("DatabaseError", "count")
    /\ UNCHANGED << genvars, profile, inputs, mig, table, txn, conn, genstate, i, issued, results, log >>

\* the SELECT ... ORDER BY and fetchall, then the loop's initial values
FetchAll ==
    /\ pc = "fetch"
    /\ messages' = select_messages(txn)
    /\ updates' = << >>
    /\ last_timestamp' = NoDatetime
    /\ counter' = 0
    /\ pc' = IF Len(messages') > 0 THEN "generate" ELSE after_generate(dry_run)
    /\ log' = Append(log, "fetch")
    /\ UNCHANGED << genvars, profile, inputs, mig, table, txn, conn, assigned, i, issued, results, exc >>

FetchAllFail ==
    /\ pc = "fetch"
    /\ Raise("DatabaseError", "fetch")
    /\ UNCHANGED << genvars, profile, inputs, mig, table, txn, conn, genstate, i, issued, results, log >>

\* one iteration of the loop over messages
GenerateOne ==
    /\ pc = "generate"
    /\ Len(updates) < Len(messages)
    /\ \E rand_bytes \in DriverRand :
        LET msg_id == messages[Len(updates) + 1][1]
            created_at == messages[Len(updates) + 1][2]
            c == next_counter(last_timestamp, created_at, counter)
            new_public_id == timestamp_to_uuidv7(created_at, c, rand_bytes)
        IN  /\ counter' = c
            /\ last_timestamp' = IF c = 0 THEN created_at ELSE last_timestamp
            /\ IF IsUUID(new_public_id)
               THEN /\ updates' = Append(updates, << uuid_str(new_public_id), msg_id >>)
                    /\ assigned' = Append(assigned,
                          [msg_id |-> msg_id, created_at |-> created_at,
                           counter |-> c, id |-> new_public_id])
                    /\ pc' = IF Len(updates') < Len(messages) THEN "generate"
                             ELSE after_generate(dry_run)
                    /\ exc' = exc
               ELSE /\ UNCHANGED << updates, assigned >>
                    /\ Raise("OverflowError", "generate")
    /\ UNCHANGED << genvars, profile, inputs, mig, table, txn, conn, messages, i, issued, results, log >>

\* the dry-run preview, then return; finally closes
DryRunPreview ==
    /\ pc = "dry_run"
    /\ pc' = "returned"
    /\ conn' = finally_close
    /\ log' = log \o << "preview", "close" >>
    /\ UNCHANGED << genvars, profile, inputs, mig, table, txn, genstate, i, issued, results, exc >>

\* range(0, len(updates), batch_size) with batch_size = 0
RangeValueError ==
    /\ pc = "update"
    /\ batch_size = 0
    /\ Raise("ValueError", "range")
    /\ UNCHANGED << genvars, profile, inputs, mig, table, txn, conn, genstate, i, issued, results, log >>

Min(a, b) == IF a < b THEN a ELSE b

\* updates[i:i + batch_size - 1]
ShortBatchMut == SubSeq(updates, i + 1, Min(i + batch_size, Len(updates)) - 1)
\* batch = updates[i:i + batch_size]
CurrentBatch == SubSeq(updates, i + 1, Min(i + batch_size, Len(updates)))

\* one iteration of the update loop
ExecuteBatch ==
    /\ pc = "update"
    /\ batch_size > 0
    /\ i < Len(updates)
    /\ txn' = execute_batch(txn, CurrentBatch)
    /\ table' = IF autocommit THEN txn' ELSE table
    /\ i' = i + batch_size
    /\ issued' = Append(issued, CurrentBatch)
    /\ log' = Append(log, "execute_batch")
    /\ UNCHANGED << genvars, profile, inputs, mig, conn, pc, genstate, results, exc >>

\* execute_batch raises after some of the batch's statements have run
ExecuteBatchFail ==
    /\ pc = "update"
    /\ batch_size > 0
    /\ i < Len(updates)
    /\ \E done \in 0..(Len(CurrentBatch) - 1) :
          /\ txn' = execute_batch(txn, SubSeq(CurrentBatch, 1, done))
          /\ issued' = Append(issued, SubSeq(CurrentBatch, 1, done))
    /\ table' = IF autocommit THEN txn' ELSE table
    /\ Raise("DatabaseError", "execute_batch")
    /\ UNCHANGED << genvars, profile, inputs, mig, conn, genstate, i, results, log >>

\* the commit indented into the loop body
CommitInsideLoopMut == pc = "update" /\ batch_size # 0
\* the for statement has run out of batches (at once for a negative step)
UpdateLoopDone ==
    /\ pc = "update"
    /\ (batch_size < 0 \/ (batch_size > 0 /\ i >= Len(updates)))

\* conn.commit()
Commit ==
    /\ UpdateLoopDone
    /\ table' = txn
    /\ pc' = "summary"
    /\ log' = Append(log, "commit")
    /\ UNCHANGED << genvars, profile, inputs, mig, txn, conn, genstate, i, issued, results, exc >>

CommitFail ==
    /\ UpdateLoopDone
    /\ Raise("DatabaseError", "commit")
    /\ UNCHANGED << genvars, profile, inputs, mig, table, txn, conn, genstate, i, issued, results, log >>

\* the success summary, with elapsed > 0
Summary ==
    /\ pc = "summary"
    /\ pc' = "verify_null"
    /\ log' = Append(log, "summary")
    /\ UNCHANGED << genvars, profile, inputs, mig, table, txn, conn, genstate, i, issued, results, exc >>

\* len(updates) / elapsed when the clock has not advanced
SummaryZeroDivision ==
    /\ pc = "summary"
    /\ Raise("ZeroDivisionError", "summary")
    /\ UNCHANGED << genvars, profile, inputs, mig, table, txn, conn, genstate, i, issued, results, log >>

\* the residual-NULL check
VerifyNull ==
    /\ pc = "verify_null"
    /\ null_count' = count_null(txn)
    /\ log' = Append(log, IF null_count' > 0 THEN "warn_null" ELSE "ok_null")
    /\ pc' = after_null_check(null_count')
    /\ UNCHANGED << genvars, profile, inputs, mig, table, txn, conn, genstate, i, issued, total_count,
                    out_of_order, exc >>

VerifyNullFail ==
    /\ pc = "verify_null"
    /\ Raise("DatabaseError", "verify_null")
    /\ UNCHANGED << genvars, profile, inputs, mig, table, txn, conn, genstate, i, issued, results, log >>

\* the ordering check; the function then ends and finally closes
VerifyOrder ==
    /\ pc = "verify_order"
    /\ out_of_order' = count_out_of_order(txn)
    /\ log' = log \o << IF out_of_order' > 0 THEN "warn_order" ELSE "ok_order",
                        "close" >>
    /\ conn' = finally_close
    /\ pc' = "returned"
    /\ UNCHANGED << genvars, profile, inputs, mig, table, txn, genstate, i, issued, total_count,
                    null_count, exc >>

VerifyOrderFail ==
    /\ pc = "verify_order"
    /\ Raise("DatabaseError", "verify_order")
    /\ UNCHANGED << genvars, profile, inputs, mig, table, txn, conn, genstate, i, issued, results, log >>

\* except Exception: rollback, report, re-raise; finally: close
HandleException ==
    /\ pc = "except"
    /\ txn' = table
    /\ conn' = finally_close
    /\ log' = log \o << "rollback", "error", "close" >>
    /\ pc' = "raised"
    /\ UNCHANGED << genvars, profile, inputs, mig, table, genstate, i, issued, results, exc >>

(***************************************************************************)
(* g3b4c5d6e7f8_finalize_public_id_uuidv7: upgrade                         *)
(***************************************************************************)
HasDuplicates(T) ==
    \E a, b \in DOMAIN T :
        a # b /\ T[a].public_id # NULL /\ T[a].public_id = T[b].public_id

NoGateMut(T) == FALSE
\* null_count > 0: the migration raises before any schema change
finalize_gate(T) == count_null(T) > 0

\* what the claims compare of a schema
Schema(m) ==
    [columns |-> m.columns, nullable |-> m.nullable,
     unique_constraint |-> m.unique_constraint, indexes |-> m.indexes]

\* the schema after one attempt of upgrade() on rows T; the migration runs
\* in one transaction, so a step that raises leaves the schema as it was
finalize_upgrade(T, m) ==
    IF finalize_gate(T) THEN [m EXCEPT !.error = "CannotFinalize"]
    ELSE IF count_null(T) > 0 THEN [m EXCEPT !.error = "NotNullViolation"]
    ELSE IF HasDuplicates(T) THEN [m EXCEPT !.error = "UniqueViolation"]
    ELSE LET done == [m EXCEPT !.revision = "g3b4c5d6e7f8",
                               !.nullable = FALSE,
                               !.unique_constraint = TRUE,
                               !.indexes = {"idx_group_message_public_id",
                                            "idx_group_message_group_public"},
                               !.error = "None"]
         IN  [done EXCEPT !.applied =
                 Append(@, [step |-> << "g3b4c5d6e7f8", "upgrade" >>, schema |-> Schema(done)])]

\* alembic upgrade to g3b4c5d6e7f8, run once the script has ended
FinalizeUpgrade ==
    /\ pc \in {"exited", "returned", "raised"}
    /\ mig.revision = "f2a3b4c5d6e7"
    /\ Len(mig.applied) < MaxMigrations
    /\ mig' = finalize_upgrade(table, mig)
    /\ UNCHANGED << genvars, profile, inputs, table, txn, conn, pc, genstate, i, issued,
                    results, exc, log >>

(***************************************************************************)
(* The DDL operations of the two migrations.  PostgreSQL runs a migration  *)
(* in one transaction: an operation that fails undoes the ones before it.  *)
(***************************************************************************)
Op(kind, name) == [op |-> kind, name |-> name]

Fail(m, error) == [m EXCEPT !.error = error]

\* one op.* call on schema m; nothing runs once an operation has failed
apply_op(m, o) ==
    IF m.error # "None" THEN m
    ELSE IF o.op = "add_column" THEN
        IF o.name \in m.columns THEN Fail(m, "DuplicateColumn")
        ELSE [m EXCEPT !.columns = @ \cup {o.name}]
    ELSE IF o.op = "drop_column" THEN
        IF o.name \notin m.columns THEN Fail(m, "UndefinedColumn")
        ELSE IF o.name = PublicId
        THEN [m EXCEPT !.columns = @ \ {o.name}, !.nullable = TRUE,
                       !.unique_constraint = FALSE, !.indexes = {}]
        ELSE [m EXCEPT !.columns = @ \ {o.name}]
    ELSE IF o.op = "drop_index" THEN
        IF o.name \notin m.indexes THEN Fail(m, "UndefinedObject")
        ELSE [m EXCEPT !.indexes = @ \ {o.name}]
    ELSE IF o.op = "drop_constraint" THEN
        IF ~m.unique_constraint THEN Fail(m, "UndefinedObject")
        ELSE [m EXCEPT !.unique_constraint = FALSE]
    ELSE IF o.op = "alter_column_nullable" THEN
        IF o.name \notin m.columns THEN Fail(m, "UndefinedColumn")
        ELSE [m EXCEPT !.nullable = TRUE]
    ELSE Fail(m, "NotImplemented")

RECURSIVE run_ops(_, _)
run_ops(m, ops) ==
    IF ops = << >> THEN m ELSE run_ops(apply_op(m, Head(ops)), Tail(ops))

\* one migration function run by alembic: all of ops, or none and the error
migrate(m, ops, revision, step) ==
    LET r == run_ops([m EXCEPT !.error = "None"], ops)
        done == [r EXCEPT !.revision = revision]
    IN  IF r.error # "None" THEN Fail(m, r.error)
        ELSE [done EXCEPT !.applied =
                 Append(@, [step |-> step, schema |-> Schema(done)])]

\* the unique constraint left in place
KeepConstraintMut ==
    << Op("drop_index", "idx_group_message_group_public"),
       Op("drop_index", "idx_group_message_public_id"),
       Op("alter_column_nullable", PublicId) >>
\* g3b4c5d6e7f8 downgrade
finalize_downgrade_ops ==
    << Op("drop_index", "idx_group_message_group_public"),
       Op("drop_index", "idx_group_message_public_id"),
       Op("drop_constraint", "uq_group_message_public_id"),
       Op("alter_column_nullable", PublicId) >>

\* f2a3b4c5d6e7 upgrade
add_public_id_upgrade_ops ==
    << Op("add_column", PublicId), Op("add_column", LastSeenPublicId) >>

\* f2a3b4c5d6e7 downgrade
add_public_id_downgrade_ops ==
    << Op("drop_column", LastSeenPublicId), Op("drop_column", PublicId) >>

\* the rows once public_id is dropped: the values are gone, and a column
\* added again starts out NULL in every row
without_public_id(T) == [a \in DOMAIN T |-> [T[a] EXCEPT !.public_id = NULL]]

\* alembic downgrade from g3b4c5d6e7f8 to f2a3b4c5d6e7
FinalizeDowngrade ==
    /\ pc \in {"exited", "returned", "raised"}
    /\ mig.revision = "g3b4c5d6e7f8"
    /\ Len(mig.applied) < MaxMigrations
    /\ mig' = migrate(mig, finalize_downgrade_ops, "f2a3b4c5d6e7",
                      << "g3b4c5d6e7f8", "downgrade" >>)
    /\ UNCHANGED << genvars, profile, inputs, table, txn, conn, pc, genstate, i, issued,
                    results, exc, log >>

\* alembic downgrade from f2a3b4c5d6e7 to e1f2a3b4c5d6
AddPublicIdDowngrade ==
    /\ pc \in {"exited", "returned", "raised"}
    /\ mig.revision = "f2a3b4c5d6e7"
    /\ Len(mig.applied) < MaxMigrations
    /\ mig' = migrate(mig, add_public_id_downgrade_ops, "e1f2a3b4c5d6",
                      << "f2a3b4c5d6e7", "downgrade" >>)
    /\ table' = IF mig'.revision = "e1f2a3b4c5d6" THEN without_public_id(table)
                ELSE table
    /\ txn' = table'
    /\ UNCHANGED << genvars, profile, inputs, conn, pc, genstate, i, issued, results, exc, log >>

\* alembic upgrade from e1f2a3b4c5d6 to f2a3b4c5d6e7
AddPublicIdUpgrade ==
    /\ pc \in {"exited", "returned", "raised"}
    /\ mig.revision = "e1f2a3b4c5d6"
    /\ Len(mig.applied) < MaxMigrations
    /\ mig' = migrate(mig, add_public_id_upgrade_ops, "f2a3b4c5d6e7",
                      << "f2a3b4c5d6e7", "upgrade" >>)
    /\ UNCHANGED << genvars, profile, inputs, table, txn, conn, pc, genstate, i, issued,
                    results, exc, log >>

Next ==
    \/ FinalizeUpgrade
    \/ GetDatabaseUrlMissing
    \/ Connect
    \/ ConnectFail
    \/ CountQuery
    \/ CountQueryFail
    \/ FetchAll
    \/ FetchAllFail
    \/ GenerateOne
    \/ DryRunPreview
    \/ RangeValueError
    \/ ExecuteBatch
    \/ ExecuteBatchFail
    \/ Commit
    \/ CommitFail
    \/ Summary
    \/ SummaryZeroDivision
    \/ VerifyNull
    \/ VerifyNullFail
    \/ VerifyOrder
    \/ VerifyOrderFail
    \/ HandleException

Spec == Init /\ [][Next]_vars

\* the driver is one sequential program: a step that can be taken is taken
InitFair == Init /\ Cardinality(DOMAIN table) <= MaxFairRecords

\* the backfill followed by migrations up and down
NextMigrations ==
    \/ Next
    \/ FinalizeDowngrade
    \/ AddPublicIdDowngrade
    \/ AddPublicIdUpgrade

SpecMigrations == InitFair /\ [][NextMigrations]_vars

SpecFair == InitFair /\ [][Next]_vars /\ WF_vars(Next)

(***************************************************************************)
(* The generator on its own: any two calls, and runs of calls on one       *)
(* timestamp with the counter going up by one.                             *)
(***************************************************************************)
InitGen ==
    /\ prev_call = NoCall
    /\ profile = NoProfile
    /\ env_url = TRUE
    /\ batch_size = 1
    /\ dry_run = FALSE
    /\ table = << >>
    /\ table0 = << >>
    /\ txn = << >>
    /\ DriverIdle
    /\ \E dt \in GenTimes, c \in CounterSamples, r \in RandSamples :
          call = MakeCall(dt, c, r)

\* a call with any sampled inputs
GenCall ==
    /\ call.counter \in CounterSamples
    /\ \E dt \in GenTimes, c \in CounterSamples, r \in RandSamples :
          call' = MakeCall(dt, c, r)
    /\ prev_call' = call
    /\ UNCHANGED << drivervars, profile >>

\* the next call of a run: same timestamp, counter + 1, fresh random bytes
GenNextCounter ==
    /\ call.counter < MaxCounter
    /\ \E r \in RandSamples : call' = MakeCall(call.dt, call.counter + 1, r)
    /\ prev_call' = call
    /\ UNCHANGED << drivervars, profile >>

NextGen == GenCall \/ GenNextCounter

SpecGen == InitGen /\ [][NextGen]_vars

(***************************************************************************)
(* A profile as loaded, with the score and the flag it was stored with     *)
(* (the column defaults, or values of an earlier update that the fields    *)
(* no longer match), and one call of update_completion.                    *)
(***************************************************************************)
InitProfile ==
    /\ call = NoCall
    /\ prev_call = NoCall
    /\ env_url = TRUE
    /\ batch_size = 1
    /\ dry_run = FALSE
    /\ table = << >>
    /\ table0 = << >>
    /\ txn = << >>
    /\ DriverIdle
    /\ \E fields \in ProfileFields, stored \in BOOLEAN :
          profile = [fields |-> fields,
                     completion_score |-> IF stored THEN 100 ELSE 0,
                     is_complete |-> stored,
                     op |-> "loaded"]

UpdateCompletion ==
    /\ profile.op = "loaded"
    /\ profile' = update_completion(profile)
    /\ UNCHANGED << genvars, drivervars >>

NextProfile == UpdateCompletion

SpecProfile == InitProfile /\ [][NextProfile]_vars

(***************************************************************************)
(* The backfill with another session writing to group_messages.  The       *)
(* sessions run at READ COMMITTED (the server default, which psycopg2      *)
(* leaves alone): every statement of the driver sees the rows committed    *)
(* before it starts.                                                       *)
(***************************************************************************)
\* created_at of a row inserted during the run (default utcnow): later than
\* every row that was there before
InsertTime == T500ms

\* INSERT INTO group_messages by the application, committed at once: the
\* GroupMessage model has no public_id attribute, so the column stays NULL
ConcurrentInsert ==
    /\ conn = "open"
    /\ Cardinality(DOMAIN table) < MaxRecords
    /\ table' = Append(table, [created_at |-> InsertTime, public_id |-> NULL])
    /\ txn' = Append(txn, [created_at |-> InsertTime, public_id |-> NULL])
    /\ log' = Append(log, "insert")
    /\ UNCHANGED << genvars, profile, inputs, mig, conn, pc, genstate, i, issued, results, exc >>

NextConcurrent == Next \/ ConcurrentInsert

SpecConcurrent == Init /\ [][NextConcurrent]_vars

(***************************************************************************)
(* Properties of the generator (checked under SpecGen).                    *)
(***************************************************************************)
BothCalls == prev_call # NoCall /\ IsUUID(prev_call.id) /\ IsUUID(call.id)

SameRunStep ==
    /\ BothCalls
    /\ prev_call.dt = call.dt
    /\ call.counter = prev_call.counter + 1

\* t2 - t1 >= 1 ms, on datetimes with microsecond resolution
DiffersAtLeast1ms(t1, t2) ==
    \/ MsLeq(AddMs(timestamp_ms_of(t1), 2), timestamp_ms_of(t2))
    \/ (AddMs(timestamp_ms_of(t1), 1) = timestamp_ms_of(t2) /\ t2.us >= t1.us)

\* C2: for timestamps t1 < t2 at least 1 ms apart and any counters c1, c2,
\* the identifier of (t1, c1) is strictly below the identifier of (t2, c2)
\* byte-wise, whatever the random bytes.
C2_StrictOrderAnyCounters ==
    (BothCalls /\ DiffersAtLeast1ms(prev_call.dt, call.dt))
        => SeqLess(prev_call.id, call.id)

\* C3: for a fixed timestamp and the counters 0..999 applied in increasing
\* order, each identifier is strictly greater than the one before it.
C3_StrictlyIncreasingRun ==
    (SameRunStep /\ call.counter <= 999) => SeqLess(prev_call.id, call.id)

C3_Witness ==
    /\ SameRunStep
    /\ call.counter = 999
    /\ prev_call.rand_bytes = RandFF
    /\ call.rand_bytes = Rand00

\* C4: every identifier has version field 7 and variant field binary 10.
C4_VersionVariant ==
    IsUUID(call.id) => (VersionField(call.id) = 7 /\ VariantField(call.id) = 2)

C4_Witness == IsUUID(call.id) /\ call.rand_bytes = RandFF

\* C5: the first 48 bits of the identifier, read big-endian, are the source
\* milliseconds plus (counter mod 1000), independent of the random bytes.
C5_RoundTrip ==
    IsUUID(call.id) =>
        TimestampField(call.id) = AddMs([hi |-> call.dt.hi, lo |-> call.dt.lo],
                                        call.counter % 1000)

C5_Witness ==
    /\ IsUUID(call.id)
    /\ call.dt = TCarry
    /\ call.counter = 999
    /\ TimestampField(call.id).hi = call.dt.hi + 1

\* C6: the timestamp field for counter c equals the one for c mod 1000;
\* counter 1000 gives the same timestamp field as counter 0.
C6_CounterWraps ==
    /\ IsUUID(call.id) =>
         TimestampField(call.id) =
           TimestampField(timestamp_to_uuidv7(call.dt, call.counter % 1000,
                                              call.rand_bytes))
    /\ (BothCalls /\ prev_call.dt = call.dt
          /\ prev_call.counter = 0 /\ call.counter = 1000)
         => TimestampField(call.id) = TimestampField(prev_call.id)

C6_Witness ==
    /\ BothCalls
    /\ prev_call.dt = call.dt
    /\ prev_call.counter = 0
    /\ call.counter = 1000

\* C7: for a fixed timestamp and every counter c, the step from 999 to 1000
\* included, the identifier for c is <= the identifier for c + 1.
C7_NonDecreasingAcrossWrap ==
    SameRunStep => SeqLeq(prev_call.id, call.id)

C1_BackfillOrder ==
    \A j, k \in 1..Len(assigned) :
        j < k => SeqLeq(assigned[j].id, assigned[k].id)

\* number of rows right before row k of the fetch with row k's timestamp
RunIndex(k) ==
    Cardinality({j \in 1..(k - 1) :
                    \A m \in j..k : messages[m][2] = messages[k][2]})

C10_BatchFailureRollsBack ==
    exc.step = "execute_batch" =>
        /\ table = table0
        /\ pc = "raised" =>
             /\ txn = table0
             /\ \E k \in 1..Len(log) : log[k] = "rollback"
             /\ \A k \in 1..Len(log) : log[k] # "commit"

C10_Witness ==
    /\ pc = "raised"
    /\ exc.step = "execute_batch"
    /\ batch_size = 1
    /\ Len(updates) = 3
    /\ i = 1
    /\ \A a \in DOMAIN table0 : table0[a].public_id = NULL
    /\ table = table0

InLog(entry) == \E k \in 1..Len(log) : log[k] = entry

CountInLog(entry) == Cardinality({k \in 1..Len(log) : log[k] = entry})

RECURSIVE Flatten(_)
Flatten(batches) ==
    IF batches = << >> THEN << >> ELSE Head(batches) \o Flatten(Tail(batches))

\* every row of the committed store has its identifier from before the run
AllOld == \A a \in DOMAIN table : table[a].public_id = table0[a].public_id

\* every fetched row of the committed store has its generated identifier
AllNew ==
    /\ Len(updates) = Len(messages)
    /\ \A k \in 1..Len(updates) : table[updates[k][2]].public_id = updates[k][1]

\* C11: at every point of a run the committed store has either every fetched
\* record's identifier at its pre-run value or every one at its generated
\* value, never a mix; the driver commits at most once, and only after the
\* last batch has executed.
C11_AllOrNothing ==
    /\ AllOld \/ AllNew
    /\ CountInLog("commit") <= 1
    /\ InLog("commit") =>
         /\ batch_size # 0
         /\ batch_size > 0 => (i >= Len(updates) /\ Flatten(issued) = updates)
         /\ \A j, k \in 1..Len(log) :
              (log[j] = "execute_batch" /\ log[k] = "commit") => j < k

C11_Witness ==
    /\ InLog("commit")
    /\ AllNew
    /\ ~AllOld
    /\ Len(issued) = 2
    /\ Len(updates) = 3
    /\ pc = "returned"

\* C12: in dry-run mode the driver computes the identifiers but executes no
\* update and no commit; every record's identifier field stays as it was,
\* for every input set and every batch size.
C12_DryRunChangesNothing ==
    dry_run =>
        /\ table = table0
        /\ txn = table0
        /\ issued = << >>
        /\ ~InLog("execute_batch")
        /\ ~InLog("commit")
        /\ InLog("preview") =>
             (Len(updates) = Len(messages) /\ Len(assigned) = Len(messages))

C12_Witness ==
    /\ dry_run
    /\ pc = "returned"
    /\ InLog("preview")
    /\ Len(updates) = 3
    /\ batch_size = 0
    /\ \A a \in DOMAIN table : table[a].public_id = NULL

Ceil(n, b) == (n + b - 1) \div b

\* C13: a non-dry run with positive batch size b over n fetched records that
\* reaches its commit has run ceil(n/b) batches of at most b consecutive
\* entries, has issued exactly one update per fetched record, carrying the
\* identifier generated from that record's timestamp and counter, and leaves
\* no fetched record without an identifier.
C13_BatchesCoverEveryRecord ==
    (~dry_run /\ batch_size > 0 /\ InLog("commit")) =>
        /\ Len(issued) = Ceil(Len(messages), batch_size)
        /\ \A j \in 1..Len(issued) :
             Len(issued[j]) >= 1 /\ Len(issued[j]) <= batch_size
        /\ Flatten(issued) = updates
        /\ Len(updates) = Len(messages)
        /\ \A k \in 1..Len(updates) :
             /\ updates[k] = << uuid_str(assigned[k].id), messages[k][1] >>
             /\ assigned[k].created_at = messages[k][2]
             /\ TimestampField(assigned[k].id) =
                  AddMs([hi |-> messages[k][2].hi, lo |-> messages[k][2].lo],
                        assigned[k].counter % 1000)
             /\ table[messages[k][1]].public_id = updates[k][1]
             /\ table[messages[k][1]].public_id # NULL

C13_Witness ==
    /\ ~dry_run
    /\ batch_size = 2
    /\ Len(messages) = 3
    /\ Len(issued) = 2
    /\ Len(issued[2]) = 1
    /\ pc = "returned"
    /\ exc = NoExc

CheckEntries == {"warn_null", "ok_null", "warn_order", "ok_order"}

Warned == InLog("warn_null") \/ InLog("warn_order")

\* C14: the two post-condition checks run only after the commit, and a
\* violation found by either is only a warning: it triggers no rollback and
\* raises nothing, and the run ends normally with the committed updates in
\* place.
C14_ChecksOnlyWarn ==
    /\ pc \in {"verify_null", "verify_order"} => InLog("commit")
    /\ \A k \in 1..Len(log) :
         log[k] \in CheckEntries => \E j \in 1..(k - 1) : log[j] = "commit"
    /\ (Warned /\ exc = NoExc) =>
         /\ pc \in {"verify_order", "returned"}
         /\ ~InLog("rollback")
         /\ ~InLog("error")
         /\ table = txn
         /\ batch_size > 0 => AllNew
    /\ (InLog("warn_order") \/ InLog("ok_order")) =>
         (pc = "returned" /\ exc = NoExc /\ conn = "closed")

C14_Witness ==
    /\ InLog("warn_order")
    /\ out_of_order > 0
    /\ pc = "returned"
    /\ batch_size = 1
    /\ AllNew

\* some row of the store has an identifier below that of a row before it in
\* (created_at, id) order
SomeLaterSmaller(T) ==
    \E j, k \in 1..Cardinality(DOMAIN T) :
        /\ j < k
        /\ T[OrderedIds(T)[j]].public_id # NULL
        /\ T[OrderedIds(T)[k]].public_id # NULL
        /\ SeqLess(T[OrderedIds(T)[k]].public_id, T[OrderedIds(T)[j]].public_id)

OrderChecked == InLog("ok_order") \/ InLog("warn_order")

\* C15: the ordering verification reports zero out-of-order records if and
\* only if the stored identifiers, taken in (timestamp, id) order, are
\* non-decreasing; when some record's identifier is below that of an earlier
\* record, the reported count is at least 1.
C15_OrderCheckExact ==
    OrderChecked =>
        /\ (out_of_order = 0) <=> ~SomeLaterSmaller(table)
        /\ SomeLaterSmaller(table) => out_of_order >= 1

C17_NeverRaises ==
    /\ IsUUID(call.id)
    /\ call.id # OverflowError
    /\ LET f == AddMs([hi |-> call.dt.hi, lo |-> call.dt.lo], call.counter % 1000)
       IN  f.hi >= 0 /\ f.hi < Limb /\ TimestampField(call.id) = f

C17_Witness ==
    /\ call.dt = TMax
    /\ call.counter = 999
    /\ IsUUID(call.id)
    /\ TimestampField(call.id) = [hi |-> 15103954, lo |-> 2088935]

(***************************************************************************)
(* Re-running the backfill (checked under Spec).                           *)
(***************************************************************************)
\* C18: when the driver runs over a store in which some records already
\* have an identifier, it updates only the records whose identifier is
\* missing, and every record that already had one keeps exactly that value.
C18_KeepsExistingIds ==
    /\ \A a \in DOMAIN table0 :
         table0[a].public_id # NULL => table[a].public_id = table0[a].public_id
    /\ \A j \in 1..Len(issued) : \A k \in 1..Len(issued[j]) :
         table0[issued[j][k][2]].public_id = NULL

\* C18 as amended: the driver fetches every record whether or not it has an
\* identifier, generates an identifier for each and issues an update for
\* each; after a committed run with positive batch size every record of the
\* store, those that already had an identifier included, carries the
\* identifier generated in this run.
C18_OverwritesEveryRow ==
    /\ InLog("fetch") =>
         {messages[k][1] : k \in 1..Len(messages)} = DOMAIN table0
    /\ (InLog("commit") /\ batch_size > 0) =>
         \A a \in DOMAIN table0 :
            /\ \E k \in 1..Len(updates) : updates[k] = << table[a].public_id, a >>
            /\ \E j \in 1..Len(issued) : \E k \in 1..Len(issued[j]) :
                  issued[j][k] = << table[a].public_id, a >>

C18_Witness ==
    /\ InLog("commit")
    /\ batch_size > 0
    /\ \E a \in DOMAIN table0 :
         /\ table0[a].public_id # NULL
         /\ table[a].public_id # table0[a].public_id
         /\ VersionField(assigned[CHOOSE k \in 1..Len(assigned) :
                                     assigned[k].msg_id = a].id) = 7
    /\ \E b \in DOMAIN table0 : table0[b].public_id = NULL

(***************************************************************************)
(* The finalize migration (checked under Spec).                            *)
(***************************************************************************)
SchemaFinalized ==
    ~mig.nullable \/ mig.unique_constraint \/ mig.indexes # {}

\* C19: the finalize migration makes public_id non-nullable and adds the
\* unique constraint and the indexes only if no row has a NULL public_id;
\* with a NULL row it raises its own exception before any schema change, so
\* a NOT NULL public_id column implies that every row has an identifier.
C19_FinalizeGate ==
    /\ SchemaFinalized => count_null(table) = 0
    /\ SchemaFinalized =>
         /\ mig.revision = "g3b4c5d6e7f8"
         /\ ~mig.nullable
         /\ mig.unique_constraint
         /\ Cardinality(mig.indexes) = 2
    /\ mig.error # "NotNullViolation"
    /\ mig.error = "CannotFinalize" =>
         /\ count_null(table) > 0
         /\ mig = [Phase1Schema EXCEPT !.error = "CannotFinalize"]
    /\ (count_null(table) > 0 /\ mig # Phase1Schema) => mig.error = "CannotFinalize"

C19_Witness ==
    /\ mig.error = "CannotFinalize"
    /\ count_null(table) > 0
    /\ pc = "raised"
    /\ exc.step = "execute_batch"
    /\ Len(issued) >= 2

(***************************************************************************)
(* Determinism of the generator (checked under SpecGen).                   *)
(***************************************************************************)
SameGeneratorInputs ==
    /\ BothCalls
    /\ prev_call.dt.hi = call.dt.hi
    /\ prev_call.dt.lo = call.dt.lo
    /\ prev_call.counter % 1000 = call.counter % 1000
    /\ prev_call.rand_bytes = call.rand_bytes

ClearMasked(rand_bytes) ==
    << Low4(rand_bytes[1]), rand_bytes[2], Low6(rand_bytes[3]) >>
        \o SubSeq(rand_bytes, 4, 10)

\* C21: bits 52..63 of the identifier are the low 12 bits of the first two
\* random bytes and bits 66..127 the low 62 bits of the other eight; the
\* top 4 bits of the first field and the top 2 of the second have no
\* influence, and no random bit reaches the timestamp, version or variant.
C21_RandomLayout ==
    /\ IsUUID(call.id) =>
         /\ call.id[7] % 16 = call.rand_bytes[1] % 16
         /\ call.id[8] = call.rand_bytes[2]
         /\ call.id[9] % 64 = call.rand_bytes[3] % 64
         /\ SubSeq(call.id, 10, 16) = SubSeq(call.rand_bytes, 4, 10)
         /\ call.id = timestamp_to_uuidv7(call.dt, call.counter,
                                          ClearMasked(call.rand_bytes))
    /\ (BothCalls /\ prev_call.dt = call.dt /\ prev_call.counter = call.counter) =>
         /\ TimestampField(prev_call.id) = TimestampField(call.id)
         /\ VersionField(prev_call.id) = VersionField(call.id)
         /\ VariantField(prev_call.id) = VariantField(call.id)

C21_Witness ==
    /\ BothCalls
    /\ prev_call.dt = call.dt
    /\ prev_call.counter = call.counter
    /\ prev_call.rand_bytes = Rand00
    /\ call.rand_bytes = RandFF
    /\ ClearMasked(call.rand_bytes) # call.rand_bytes
    /\ SubSeq(call.id, 7, 9) = << 127, 255, 191 >>

(***************************************************************************)
(* The counter and the millisecond (checked under Spec).                   *)
(***************************************************************************)
SameMillisecond(t1, t2) == timestamp_ms_of(t1) = timestamp_ms_of(t2)

\* C22: whenever two consecutive records in (timestamp, id) order have
\* timestamps in the same millisecond, also when they differ only below the
\* millisecond, the later record receives a counter one higher than the
\* earlier one, so the two identifiers get different timestamp fields and
\* sort in processing order.
C22_SameMillisecondCounter ==
    \A k \in 2..Len(assigned) :
        SameMillisecond(assigned[k - 1].created_at, assigned[k].created_at) =>
            /\ assigned[k].counter = assigned[k - 1].counter + 1
            /\ TimestampField(assigned[k - 1].id) # TimestampField(assigned[k].id)
            /\ SeqLess(assigned[k - 1].id, assigned[k].id)

(***************************************************************************)
(* What a reported failure means (checked under Spec).                     *)
(***************************************************************************)
\* C23: whenever the driver reports failure ('Migration failed', exception
\* re-raised), no record's identifier has been changed by that run, for an
\* exception raised at any step, the summary and the two verification
\* queries after the commit included.
C23_FailureMeansUnchanged ==
    (pc = "raised" /\ InLog("error")) => table = table0

\* C24: whenever a non-dry run commits and prints the success summary,
\* every fetched record has been issued exactly one update, for every
\* integer batch size the command line accepts, zero and negative included.
C24_SummaryMeansAllUpdated ==
    (~dry_run /\ InLog("commit") /\ InLog("summary")) =>
        /\ Len(Flatten(issued)) = Len(messages)
        /\ \A k \in 1..Len(messages) :
             Cardinality({j \in 1..Len(Flatten(issued)) :
                            Flatten(issued)[j][2] = messages[k][1]}) = 1

(***************************************************************************)
(* A record inserted during the run (checked under SpecConcurrent).        *)
(***************************************************************************)
\* position in the log of the first entry among es, 0 when there is none
FirstInLog(es) ==
    IF \E k \in 1..Len(log) : log[k] \in es
    THEN CHOOSE k \in 1..Len(log) :
            log[k] \in es /\ \A j \in 1..(k - 1) : log[j] \notin es
    ELSE 0

\* the inserts made after the fetch and before position p of the log
InsertsInWindow(p) ==
    {k \in 1..Len(log) :
        log[k] = "insert" /\ FirstInLog({"fetch"}) > 0
          /\ FirstInLog({"fetch"}) < k /\ k < p}

\* the ids of the rows that were not there when the driver fetched
NotFetched ==
    {a \in DOMAIN table : InLog("fetch") /\ \A k \in 1..Len(messages) : messages[k][1] # a}

NullChecked == InLog("warn_null") \/ InLog("ok_null")

\* C25: a record inserted by another writer after the driver's fetch and
\* before its verification step is never assigned an identifier and does
\* not keep the driver from committing; it keeps a missing identifier, the
\* residual-null check counts it and prints a warning, and the finalize
\* migration refuses to run while it is not filled.
C25_LateInsertStaysNull ==
    /\ \A a \in NotFetched :
         /\ table[a].public_id = NULL
         /\ txn[a].public_id = NULL
         /\ \A j \in 1..Len(issued) : \A k \in 1..Len(issued[j]) : issued[j][k][2] # a
    /\ (pc = "returned" /\ exc = NoExc /\ ~dry_run /\ total_count > 0) => InLog("commit")
    /\ (NullChecked /\ InsertsInWindow(FirstInLog({"warn_null", "ok_null"})) # {}) =>
         /\ InLog("warn_null")
         /\ null_count >=
              Cardinality(InsertsInWindow(FirstInLog({"warn_null", "ok_null"})))
    /\ NotFetched # {} =>
         /\ ~SchemaFinalized
         /\ mig \in {Phase1Schema, [Phase1Schema EXCEPT !.error = "CannotFinalize"]}

C25_Witness ==
    /\ pc = "returned"
    /\ InLog("commit")
    /\ batch_size = 1
    /\ Len(messages) = 2
    /\ AllNew
    /\ NotFetched = {3}
    /\ InsertsInWindow(FirstInLog({"warn_null", "ok_null"})) # {}
    /\ null_count = 1
    /\ InLog("warn_null")
    /\ mig.error = "CannotFinalize"

(***************************************************************************)
(* The connection (checked under SpecFair).                                *)
(***************************************************************************)
ClosedOnceAndLast ==
    /\ CountInLog("close") <= 1
    /\ (conn = "closed") <=> InLog("close")
    /\ InLog("close") => log[Len(log)] = "close"
    /\ (InLog("connect") /\ pc \in {"returned", "raised"}) => conn = "closed"
    /\ (conn = "closed" /\ exc # NoExc) =>
         /\ pc = "raised"
         /\ \E j, k \in 1..Len(log) :
               j < k /\ log[j] = "rollback" /\ log[k] = "close"
    /\ InLog("rollback") => exc # NoExc
    /\ (conn = "closed" /\ exc = NoExc) => (pc = "returned" /\ ~InLog("rollback"))

\* C26: for every run that gets past opening the connection (success, dry
\* run, empty table, or an exception at any step) the connection is
\* eventually closed, exactly once and as the last database action; on an
\* exception a rollback is issued before the close and the exception is
\* propagated to the caller.
C26_ConnectionClosed ==
    /\ [] ClosedOnceAndLast
    /\ (conn = "open") ~> (conn = "closed")

C26_Witness ==
    /\ conn = "closed"
    /\ pc = "raised"
    /\ exc.step = "verify_order"
    /\ InLog("commit")
    /\ Len(issued) = 2
    /\ log[Len(log)] = "close"
    /\ log[Len(log) - 2] = "rollback"

(***************************************************************************)
(* Text order and value order (checked under SpecGen).                     *)
(***************************************************************************)
\* lowercase hexadecimal digits with '-' after the 8th, 12th, 16th and 20th
Canonical(str) ==
    /\ Len(str) = 36
    /\ \A k \in 1..36 :
         IF k \in {9, 14, 19, 24} THEN str[k] = 45
         ELSE str[k] \in (48..57) \cup (97..102)

\* C27: for two identifiers in canonical lowercase 8-4-4-4-12 form,
\* lexicographic comparison of the strings gives the same result as numeric
\* comparison of the 128-bit values, so the text comparison of the ordering
\* check flags exactly the pairs that are out of order by value.
C27_TextOrderIsValueOrder ==
    BothCalls =>
        /\ Canonical(uuid_str(prev_call.id))
        /\ Canonical(uuid_str(call.id))
        /\ SeqLess(uuid_str(call.id), uuid_str(prev_call.id))
             <=> SeqLess(call.id, prev_call.id)
        /\ (uuid_str(call.id) = uuid_str(prev_call.id)) <=> (call.id = prev_call.id)

C27_Witness ==
    /\ BothCalls
    /\ prev_call.dt = call.dt
    /\ prev_call.counter = call.counter
    /\ prev_call.rand_bytes = RandFF
    /\ call.rand_bytes = Rand00
    /\ uuid_str(prev_call.id)[16] = 102
    /\ uuid_str(call.id)[16] = 48
    /\ SeqLess(uuid_str(call.id), uuid_str(prev_call.id))

(***************************************************************************)
(* The empty table (checked under Spec).                                   *)
(***************************************************************************)
\* C28: when the table holds zero records the driver returns right after
\* the count: it fetches nothing, generates no identifier, executes no
\* update and no commit, runs no verification, and leaves the store
\* unchanged.
C28_EmptyTableReturns ==
    (Cardinality(DOMAIN table0) = 0 /\ InLog("count")) =>
        /\ pc = "returned"
        /\ exc = NoExc
        /\ total_count = 0
        /\ log = << "connect", "count", "close" >>
        /\ messages = << >>
        /\ updates = << >>
        /\ assigned = << >>
        /\ issued = << >>
        /\ null_count = 0
        /\ out_of_order = 0
        /\ table = table0
        /\ txn = table0

C28_Witness ==
    /\ Cardinality(DOMAIN table0) = 0
    /\ InLog("count")
    /\ pc = "returned"
    /\ conn = "closed"
    /\ ~dry_run
    /\ batch_size = 1

(***************************************************************************)
(* Upgrade and downgrade (checked under SpecMigrations).                   *)
(***************************************************************************)
\* the schema before the k-th applied migration
SchemaBefore(k) ==
    IF k = 1 THEN Schema(Phase1Schema) ELSE mig.applied[k - 1].schema

DdlErrors ==
    {"DuplicateColumn", "UndefinedColumn", "UndefinedObject", "NotImplemented"}

FinalizedSchema ==
    [columns |-> {PublicId, LastSeenPublicId}, nullable |-> FALSE,
     unique_constraint |-> TRUE,
     indexes |-> {"idx_group_message_public_id", "idx_group_message_group_public"}]

\* C29: for each of the two public_id migrations, upgrade followed by
\* downgrade restores the same columns, nullability, constraints and
\* indexes; downgrade removes exactly the objects upgrade created, in an
\* order in which each removal is valid.
C29_DowngradeUndoesUpgrade ==
    /\ mig.error \notin DdlErrors
    /\ \A k \in 2..Len(mig.applied) :
         \A rev \in {"f2a3b4c5d6e7", "g3b4c5d6e7f8"} :
            (/\ mig.applied[k - 1].step = << rev, "upgrade" >>
             /\ mig.applied[k].step = << rev, "downgrade" >>)
               => mig.applied[k].schema = SchemaBefore(k - 1)
    /\ mig.revision = "e1f2a3b4c5d6" => Schema(mig) = Schema(BaseSchema)
    /\ mig.revision = "f2a3b4c5d6e7" => Schema(mig) = Schema(Phase1Schema)
    /\ mig.revision = "g3b4c5d6e7f8" => Schema(mig) = FinalizedSchema
    /\ Len(mig.applied) > 0 =>
         Schema(mig) = mig.applied[Len(mig.applied)].schema

C29_Witness ==
    /\ Len(mig.applied) = 5
    /\ mig.applied[1].step = << "g3b4c5d6e7f8", "upgrade" >>
    /\ mig.applied[2].step = << "g3b4c5d6e7f8", "downgrade" >>
    /\ mig.applied[3].step = << "f2a3b4c5d6e7", "downgrade" >>
    /\ mig.applied[4].step = << "f2a3b4c5d6e7", "upgrade" >>
    /\ mig.applied[5].step = << "f2a3b4c5d6e7", "downgrade" >>
    /\ mig.applied[1].schema = FinalizedSchema
    /\ mig.applied[2].schema = Schema(Phase1Schema)
    /\ mig.applied[4].schema = Schema(Phase1Schema)
    /\ Schema(mig) = Schema(BaseSchema)

(***************************************************************************)
(* The completion score (checked under SpecProfile).                       *)
(***************************************************************************)
\* the weighted fields that are not None, not '' and not []
FilledFields ==
    {k \in 1..Len(FieldOrder) :
        LET value == profile.fields[FieldOrder[k]]
        IN  value.type # "NoneType" /\ ~(value.type \in {"str", "list"} /\ value.len = 0)}

RECURSIVE WeightSum(_)
WeightSum(ks) ==
    IF ks = {} THEN 0
    ELSE LET k == CHOOSE x \in ks : TRUE
         IN  fields_weights[FieldOrder[k]] + WeightSum(ks \ {k})

\* C30: compute_completion_score returns the sum of the weights of the
\* filled fields, which is between 0 and 100 and is 100 exactly when all 11
\* weighted fields are filled; after update_completion, completion_score is
\* that sum and is_complete is true exactly when completion_score >= 60.
C30_CompletionScore ==
    /\ compute_completion_score(profile.fields) = WeightSum(FilledFields)
    /\ compute_completion_score(profile.fields) \in 0..100
    /\ (compute_completion_score(profile.fields) = 100)
         <=> (Cardinality(FilledFields) = 11)
    /\ profile.op = "update_completion" =>
         /\ profile.completion_score = WeightSum(FilledFields)
         /\ profile.is_complete <=> (profile.completion_score >= 60)

C30_Witness ==
    /\ profile.op = "update_completion"
    /\ profile.fields.elevator_pitch = Str(0)
    /\ profile.fields.primary_roles = List(0)
    /\ profile.fields.education = None
    /\ profile.completion_score = 60
    /\ profile.is_complete

=============================================================================
